---- MODULE Spec2Model ----
(***************************************************************************)
(* secure-todo-pwa: the context-gating engine of src/src/App.tsx.          *)
(*                                                                         *)
(* State: the React state cells of App (todos, registeredLocations,        *)
(* currentLocation, locationStatus, privateMode, biometricEnabled,         *)
(* authenticating, currentPage), the localStorage keys the component       *)
(* reads and writes, the verifications that are waiting for the platform   *)
(* authenticator (each with the values its handler closed over), and the   *)
(* clock Date.now() takes ids from; the watchPosition subscriptions, the    *)
(* task being edited, and, in pw, the state of the password-gated variant  *)
(* of src/unnamed/part_000.                                                *)
(*                                                                         *)
(* One action per event handler.  A handler whose performBiometricAuth     *)
(* awaits navigator.credentials.create/get is two actions (the call, and   *)
(* the platform's answer with the rest of the handler); a handler that     *)
(* only asks window.confirm runs to completion in one action, because      *)
(* window.confirm blocks the event loop.  Every action includes the        *)
(* re-render and the effects that follow its state changes (the save       *)
(* effects of lines 96-110 and the re-subscription of line 369-385).       *)
(* The side menu (l.483-512) opens any page at any time and changes        *)
(* nothing else, so the action of a handler whose button is on one page    *)
(* (l.547, l.647, l.674, l.736) includes opening that page.                *)
(*                                                                         *)
(* Coordinates.  calculateDistance is the haversine distance.  The model   *)
(* keeps every point on the meridian of the seeded zone: a latitude is the *)
(* number of metres north of 36.4507 N along that meridian, the longitude  *)
(* is the constant 0 (136.5933 E).  On one meridian the haversine formula  *)
(* gives R * |dphi|, the absolute difference of the two offsets.           *)
(***************************************************************************)
EXTENDS Integers, Naturals, Sequences, FiniteSets, TLC

VARIABLES
    todos,               \* useState<Todo[]>               l.46
    privateMode,         \* useState(false)                l.56
    biometricEnabled,    \* useState(false)                l.57
    authenticating,      \* useState(false)                l.58
    registeredLocations, \* useState<Location[]>           l.61
    currentLocation,     \* useState<{lat,lon}|null>       l.62
    locationStatus,      \* useState<LocationStatus>       l.63
    currentPage,         \* useState<PageType>             l.44
    credentialId,        \* localStorage webauthn_credential_id is set
    rawId,               \* localStorage webauthn_raw_id is set
    stTodos,             \* localStorage 'todos'      (<<>>: key absent)
    stLocations,         \* localStorage 'locations'  (<<>>: key absent)
    stBiometric,         \* localStorage 'biometricEnabled'
    webAuthnAvailable,   \* window.PublicKeyCredential !== undefined
    pending,             \* verifications awaiting the platform, in call order
    watches,             \* active watchPosition subscriptions, each the zone
                         \* list its callback closed over     l.366, l.371
    editingTodo,         \* useState<number | null>(null)     l.50 (0: null)
    pw,                  \* the state of the password-gated variant
                         \* (src/unnamed/part_000 l.32-74), a record
    now,                 \* Date.now()
    everRegistered,      \* history: enableBiometric has succeeded
    lastEvent            \* history: the handler that ran last and its outcome

vars == <<todos, privateMode, biometricEnabled, authenticating,
          registeredLocations, currentLocation, locationStatus, currentPage,
          credentialId, rawId, stTodos, stLocations, stBiometric,
          webAuthnAvailable, pending, watches, editingTodo, pw, now,
          everRegistered, lastEvent>>

(***************************************************************************)
(* Bounds of the model.                                                    *)
(***************************************************************************)
MaxTodos == 2
MaxZones == 2
MaxPending == 1
MaxOverlap == 2
MaxClock == 2

(***************************************************************************)
(* Program constants.                                                      *)
(***************************************************************************)
JaistRadius == 200
DefaultRadius == 150

Categories == {"Personal", "School", "Work", "Other"}   \* l.9
LocationTypes == {"home", "school", "work"}             \* l.21
LocationStatuses == LocationTypes \cup {"outside"}      \* l.24
PageTypes == {"main", "add-task", "locations", "account", "settings"} \* l.25

NoLocation == [none |-> TRUE]                            \* currentLocation null

\* Inputs: coordinate samples (metres north of the seeded zone's centre),
\* radius inputs, titles and zone names typed by the user.
Samples == {0, 150, 5000}
RadiusInputs == {DefaultRadius, 0}
TitleInputs == {<<>>, <<" ">>, <<"t">>}
NameInputs == {"", "n"}

(***************************************************************************)
(* Pure helpers.                                                           *)
(***************************************************************************)
Abs(x) == IF x < 0 THEN -x ELSE x

\* l.28-41, restricted to one meridian (lon1 = lon2): a = sin^2(dphi/2),
\* c = |dphi|, R * c = |lat2 - lat1| in metres.
calculateDistance(lat1, lon1, lat2, lon2) == Abs(lat2 - lat1)

\* Mutant: the comparison of l.360 written with < instead of <=.
RECURSIVE resolveStatus_Strict(_, _, _)
resolveStatus_Strict(latitude, longitude, locs) ==
    IF locs = <<>> THEN "outside"
    ELSE IF calculateDistance(latitude, longitude,
                              Head(locs).latitude, Head(locs).longitude)
               < Head(locs).radius
         THEN Head(locs).type
         ELSE resolveStatus_Strict(latitude, longitude, Tail(locs))

\* Mutant: the scan without the break of l.362 (the last match wins).
RECURSIVE resolveStatus_NoBreak(_, _, _)
resolveStatus_NoBreak(latitude, longitude, locs) ==
    IF locs = <<>> THEN "outside"
    ELSE LET rest == resolveStatus_NoBreak(latitude, longitude, Tail(locs))
         IN IF rest = "outside"
               /\ calculateDistance(latitude, longitude,
                                    Head(locs).latitude, Head(locs).longitude)
                      <= Head(locs).radius
            THEN Head(locs).type
            ELSE rest

\* l.357-364: the scan of handlePositionUpdate, in store order, with its break.
RECURSIVE resolveStatus(_, _, _)
resolveStatus(latitude, longitude, locs) ==
    IF locs = <<>> THEN "outside"
    ELSE IF calculateDistance(latitude, longitude,
                              Head(locs).latitude, Head(locs).longitude)
               <= Head(locs).radius
         THEN Head(locs).type
         ELSE resolveStatus(latitude, longitude, Tail(locs))

\* Mutant: the 'school' case of l.323 without its second disjunct.
isTaskVisible_SchoolOnly(todo) ==
    IF privateMode THEN TRUE
    ELSE CASE locationStatus = "home" -> TRUE
           [] locationStatus = "school" -> todo.category = "School"
           [] locationStatus = "work" ->
                  todo.category = "Work" \/ todo.category = "Other"
           [] locationStatus = "outside" -> todo.category = "Other"
           [] OTHER -> todo.category = "Other"

\* Mutant: without the private-mode test of l.317.
isTaskVisible_NoPrivate(todo) ==
    CASE locationStatus = "home" -> TRUE
      [] locationStatus = "school" ->
             todo.category = "School" \/ todo.category = "Other"
      [] locationStatus = "work" ->
             todo.category = "Work" \/ todo.category = "Other"
      [] locationStatus = "outside" -> todo.category = "Other"
      [] OTHER -> todo.category = "Other"

\* l.316-331
isTaskVisible(todo) ==
    IF privateMode THEN TRUE
    ELSE CASE locationStatus = "home" -> TRUE
           [] locationStatus = "school" ->
                  todo.category = "School" \/ todo.category = "Other"
           [] locationStatus = "work" ->
                  todo.category = "Work" \/ todo.category = "Other"
           [] locationStatus = "outside" -> todo.category = "Other"
           [] OTHER -> todo.category = "Other"

\* Mutant: without the negation of l.343 (the visible tasks are counted).
getHiddenTasksCount_Visible ==
    [c \in Categories |->
        Cardinality({i \in 1..Len(todos) :
                        isTaskVisible(todos[i]) /\ todos[i].category = c})]

\* l.334-349
getHiddenTasksCount ==
    [c \in Categories |->
        Cardinality({i \in 1..Len(todos) :
                        ~isTaskVisible(todos[i]) /\ todos[i].category = c})]

\* l.443
hiddenCounts == getHiddenTasksCount

IsCompleted(todo) == todo.completed
IsNotCompleted(todo) == ~todo.completed

\* l.447-452: filter, then a stable sort that moves completed tasks down.
sortedTodos ==
    SelectSeq(SelectSeq(todos, isTaskVisible), IsNotCompleted)
        \o SelectSeq(SelectSeq(todos, isTaskVisible), IsCompleted)

\* String.prototype.trim on a title given as a sequence of characters.
RECURSIVE trimStart(_)
trimStart(s) == IF s # <<>> /\ Head(s) = " " THEN trimStart(Tail(s)) ELSE s

RECURSIVE trimEnd(_)
trimEnd(s) ==
    IF s # <<>> /\ s[Len(s)] = " " THEN trimEnd(SubSeq(s, 1, Len(s) - 1)) ELSE s

trim(s) == trimEnd(trimStart(s))

RemoveAt(s, i) == SubSeq(s, 1, i - 1) \o SubSeq(s, i + 1, Len(s))

\* The save effects of l.96-106: an empty list is not written.
saveList(list, stored) == IF Len(list) > 0 THEN list ELSE stored

\* Mutant: the effect of l.369-385 without the cleanup of l.383.
watchPositionEffect_NoCleanup(old, new, ws) == ws \cup {new}

\* l.369-385: handlePositionUpdate is a new callback whenever
\* registeredLocations is set (l.366), so the effect runs again: its cleanup
\* clears the watch of the callback that closed over the old list (l.383)
\* and watchPosition subscribes the new callback (l.371).  ws are the
\* subscriptions before, each named by the list its callback closed over.
watchPositionEffect(old, new, ws) == (ws \ {old}) \cup {new}

\* l.50: no task is being edited.
NoEdit == 0

\* l.82-89: the zone seeded when no 'locations' key is stored.
jaist(t) == [id |-> t, name |-> "JAIST", latitude |-> 0, longitude |-> 0,
             radius |-> JaistRadius, type |-> "school"]

(***************************************************************************)
(* performBiometricAuth, l.118-222.                                        *)
(***************************************************************************)
\* The branch taken up to the first await (l.123-206), from what localStorage
\* holds when the function is called:
\*   "create"   awaits navigator.credentials.create   (l.155)
\*   "get"      awaits navigator.credentials.get      (l.193)
\*   "norawid"  throws at l.178
\*   "fallback" reaches window.confirm at l.209
authPath(isSetup) ==
    IF webAuthnAvailable
    THEN IF isSetup /\ ~credentialId THEN "create"
         ELSE IF credentialId THEN (IF ~rawId THEN "norawid" ELSE "get")
         ELSE "fallback"
    ELSE "fallback"

\* Mutant: without the catch block of l.212-218 (a rejection propagates).
performBiometricAuth_NoCatch(path, platform, confirms) ==
    LET raised == \/ path = "norawid"
                  \/ path \in {"create", "get"} /\ platform = "reject"
    IN IF raised
       THEN [ret |-> FALSE, threw |-> TRUE, stored |-> FALSE]
       ELSE IF path \in {"create", "get"} /\ platform = "ok"
            THEN [ret |-> TRUE, threw |-> FALSE, stored |-> path = "create"]
            ELSE [ret |-> confirms[1], threw |-> FALSE, stored |-> FALSE]

\* Mutant: without the 'return true' of l.199 (an assertion falls through to
\* the confirm of l.209).
performBiometricAuth_NoReturn(path, platform, confirms) ==
    LET raised == \/ path = "norawid"
                  \/ path \in {"create", "get"} /\ platform = "reject"
    IN IF raised
       THEN [ret |-> IF confirms[1] THEN confirms[2] ELSE FALSE,
             threw |-> FALSE, stored |-> FALSE]
       ELSE IF path = "create" /\ platform = "ok"
            THEN [ret |-> TRUE, threw |-> FALSE, stored |-> TRUE]
            ELSE [ret |-> confirms[1], threw |-> FALSE, stored |-> FALSE]

\* What the function returns.  platform is the answer of the awaited call
\* ("ok": a credential or assertion, "null": null, "reject": the promise
\* rejects, a timeout included; "none" when nothing was awaited).  confirms
\* are the user's answers to the window.confirm dialogs in the order they are
\* shown: l.209 shows one; the catch block shows l.215 and, if accepted,
\* l.216.  stored: the credential id was written to localStorage (l.161-163).
performBiometricAuth(path, platform, confirms) ==
    LET raised == \/ path = "norawid"
                  \/ path \in {"create", "get"} /\ platform = "reject"
    IN IF raised
       THEN [ret |-> IF confirms[1] THEN confirms[2] ELSE FALSE,
             threw |-> FALSE, stored |-> FALSE]
       ELSE IF path \in {"create", "get"} /\ platform = "ok"
            THEN [ret |-> TRUE, threw |-> FALSE, stored |-> path = "create"]
            ELSE [ret |-> confirms[1], threw |-> FALSE, stored |-> FALSE]

\* The answers a user can give to the confirm dialogs of one call.
ConfirmAnswers == {<<FALSE, FALSE>>, <<TRUE, FALSE>>, <<TRUE, TRUE>>}

(***************************************************************************)
(* History records.                                                        *)
(*   op      the handler                                                   *)
(*   verify  what performBiometricAuth did in the step: "none" (not        *)
(*           called), "pending" (called, now awaiting the platform),       *)
(*           "success" / "failure" (returned true / false)                 *)
(*   gate    biometricEnabled as the handler saw it when it called verify  *)
(*   cred    a credential id was stored when verify was called             *)
(*   platform the answer of the awaited platform call ("none": no call)    *)
(*   routed  the handler alerted and set currentPage to 'settings'         *)
(*   threw   the handler ended by an exception                             *)
(*   id      the id the handler was called with (0: none)                  *)
(*   confirmed the user accepted the handler's own window.confirm          *)
(***************************************************************************)
Ev(op) == [op |-> op, verify |-> "none", gate |-> FALSE, cred |-> FALSE,
           platform |-> "none", routed |-> FALSE, threw |-> FALSE,
           id |-> 0, confirmed |-> FALSE]

\* A verification in flight: the handler, the branch it awaits, and the
\* values the handler's closure holds (the state of the render it was
\* created in).
Request(kind, zones, loc, name, radius, type, id) ==
    [kind |-> kind, path |-> authPath(kind = "enableBiometric"),
     gate |-> biometricEnabled, cred |-> credentialId,
     zones |-> zones, loc |-> loc, name |-> name, radius |-> radius,
     type |-> type, id |-> id]

PlainRequest(kind) == Request(kind, <<>>, NoLocation, "", 0, "home", 0)

(***************************************************************************)
(* The password-gated variant, src/unnamed/part_000 l.31-271: its state    *)
(* after the first render with an empty localStorage.  The fields are the  *)
(* state cells of l.42-68 under their names; appPassword is the            *)
(* localStorage key (<<>>: absent, <<p>>: the password p); watches and     *)
(* shots are the callbacks subscribed by watchPosition (l.191) and the     *)
(* callbacks of getCurrentPosition calls still to be answered (l.184),     *)
(* each the render values handlePositionUpdate closed over.  Location      *)
(* contexts are written outside / school / work / home; gpsStatus keeps    *)
(* isAvailable, error and currentCoords.                                   *)
(***************************************************************************)
PwInit ==
    [currentLocation |-> "outside",            \* l.42
     isPersonalMode |-> FALSE,                 \* l.43
     useAutoLocation |-> FALSE,                \* l.44
     showManualLocationSelect |-> FALSE,       \* l.45
     gpsStatus |-> [isAvailable |-> FALSE, error |-> "",
                    currentCoords |-> NoLocation],   \* l.48-54
     savedLocations |-> <<>>,                  \* l.55-58
     showLocationSaveDialog |-> FALSE,         \* l.59
     isAuthenticated |-> FALSE,                \* l.64
     password |-> "",                          \* l.65
     hasSetPassword |-> FALSE,                 \* l.66
     showPasswordDialog |-> FALSE,             \* l.67
     authAction |-> "",                        \* l.68
     appPassword |-> <<>>,
     watches |-> {},
     shots |-> {}]

(***************************************************************************)
(* Initial state: the first run, after the load effect of l.71-93 with an  *)
(* empty localStorage, and the save effects that follow it.                *)
(***************************************************************************)
Init ==
    /\ todos = <<>>
    /\ privateMode = FALSE
    /\ biometricEnabled = FALSE
    /\ authenticating = FALSE
    /\ now = 1
    /\ registeredLocations = <<jaist(1)>>
    /\ currentLocation = NoLocation
    /\ locationStatus = "outside"
    /\ currentPage = "main"
    /\ credentialId = FALSE
    /\ rawId = FALSE
    /\ stTodos = <<>>
    /\ stLocations = <<jaist(1)>>
    /\ stBiometric = FALSE
    /\ webAuthnAvailable \in BOOLEAN
    /\ pending = <<>>
    /\ watches = watchPositionEffect(<<>>, <<jaist(1)>>, {<<>>})
    /\ editingTodo = NoEdit
    /\ pw = PwInit
    /\ everRegistered = FALSE
    /\ lastEvent = Ev("init")

(***************************************************************************)
(* The environment.                                                        *)
(***************************************************************************)
\* Date.now() advances.
Tick ==
    /\ now < MaxClock
    /\ now' = now + 1
    /\ UNCHANGED <<todos, privateMode, biometricEnabled, authenticating,
                   registeredLocations, currentLocation, locationStatus,
                   currentPage, credentialId, rawId, stTodos, stLocations,
                   stBiometric, webAuthnAvailable, watches, editingTodo, pw,
                   pending, everRegistered, lastEvent>>

\* Mutant: the callback returns at once while a verification is running.
handlePositionUpdate_Blocked(latitude, longitude) ==
    /\ \E zones \in watches :
          IF authenticating
          THEN UNCHANGED <<currentLocation, locationStatus>>
          ELSE /\ currentLocation' = [lat |-> latitude, lon |-> longitude]
               /\ locationStatus' = resolveStatus(latitude, longitude, zones)
    /\ lastEvent' = Ev("handlePositionUpdate")
    /\ UNCHANGED <<todos, privateMode, biometricEnabled, authenticating,
                   registeredLocations, currentPage, credentialId, rawId,
                   stTodos, stLocations, stBiometric, webAuthnAvailable,
                   watches, editingTodo, pw, pending, now, everRegistered>>

\* l.352-366: the platform delivers a coordinate sample to a subscribed
\* callback, which scans the zone list it closed over.
handlePositionUpdate(latitude, longitude) ==
    /\ currentLocation' = [lat |-> latitude, lon |-> longitude]
    /\ \E zones \in watches :
          locationStatus' = resolveStatus(latitude, longitude, zones)
    /\ lastEvent' = Ev("handlePositionUpdate")
    /\ UNCHANGED <<todos, privateMode, biometricEnabled, authenticating,
                   registeredLocations, currentPage, credentialId, rawId,
                   stTodos, stLocations, stBiometric, webAuthnAvailable,
                   watches, editingTodo, pw, pending, now, everRegistered>>

\* Mutant: a location error ends the subscription and forgets the position.
watchPositionError_Fatal ==
    /\ watches' = {}
    /\ currentLocation' = NoLocation
    /\ locationStatus' = "outside"
    /\ lastEvent' = Ev("watchPositionError")
    /\ UNCHANGED <<todos, privateMode, biometricEnabled, authenticating,
                   registeredLocations, currentPage, credentialId, rawId,
                   stTodos, stLocations, stBiometric, webAuthnAvailable,
                   editingTodo, pw, pending, now, everRegistered>>

\* l.373-375: the platform reports a location error to the error callback
\* of a subscription, which writes it to the console.
watchPositionError ==
    /\ watches # {}
    /\ lastEvent' = Ev("watchPositionError")
    /\ UNCHANGED <<todos, privateMode, biometricEnabled, authenticating,
                   registeredLocations, currentLocation, locationStatus,
                   currentPage, credentialId, rawId, stTodos, stLocations,
                   stBiometric, webAuthnAvailable, watches, editingTodo, pw,
                   pending, now, everRegistered>>

(***************************************************************************)
(* Guarded handlers.                                                       *)
(***************************************************************************)
\* The rest of a handler once performBiometricAuth has returned res: the
\* finally block (l.219-221), then the handler's own continuation
\* (l.227-230, l.238-240, l.396-414, l.421-429), then the save effects.
\* It does not say what becomes of pending.
Finish(req, res, page, platform) ==
    LET ok == res.ret /\ ~res.threw
        newLocation == [id |-> now, name |-> req.name,
                        latitude |-> req.loc.lat, longitude |-> req.loc.lon,
                        radius |-> req.radius, type |-> req.type]
        locs == IF ok /\ req.kind = "registerCurrentLocation"
                THEN Append(req.zones, newLocation)
                ELSE IF ok /\ req.kind = "deleteLocation"
                     THEN SelectSeq(req.zones, LAMBDA l : l.id # req.id)
                     ELSE registeredLocations
        enabled == biometricEnabled \/ (ok /\ req.kind = "enableBiometric")
    IN /\ authenticating' = FALSE
       /\ credentialId' = (credentialId \/ res.stored)
       /\ rawId' = (rawId \/ res.stored)
       /\ biometricEnabled' = enabled
       /\ stBiometric' = enabled
       /\ everRegistered' = (everRegistered \/ (ok /\ req.kind = "enableBiometric"))
       /\ privateMode' = (privateMode \/ (ok /\ req.kind = "togglePrivateMode"))
       /\ registeredLocations' = locs
       /\ stLocations' = saveList(locs, stLocations)
       /\ watches' = IF ok /\ req.kind \in {"registerCurrentLocation",
                                             "deleteLocation"}
                     THEN watchPositionEffect(registeredLocations, locs,
                                              watches)
                     ELSE watches
       /\ lastEvent' = [op |-> req.kind,
                        verify |-> IF res.ret THEN "success" ELSE "failure",
                        gate |-> req.gate, cred |-> req.cred,
                        platform |-> platform,
                        routed |-> FALSE, threw |-> res.threw,
                        id |-> req.id, confirmed |-> FALSE]
       /\ currentPage' = page
       /\ UNCHANGED <<todos, currentLocation, locationStatus, stTodos,
                      webAuthnAvailable, editingTodo, pw, now>>

\* A handler calls performBiometricAuth (l.118): either the call awaits the
\* platform and the handler is suspended, or it asks window.confirm and the
\* handler runs on at once.
Call(req, page) ==
    IF req.path \in {"create", "get"}
    THEN /\ pending' = Append(pending, req)
         /\ authenticating' = TRUE
         /\ lastEvent' = [op |-> req.kind, verify |-> "pending",
                          gate |-> req.gate, cred |-> req.cred,
                          platform |-> "none",
                          routed |-> FALSE, threw |-> FALSE,
                          id |-> req.id, confirmed |-> FALSE]
         /\ currentPage' = page
         /\ UNCHANGED <<todos, privateMode, biometricEnabled,
                        registeredLocations, currentLocation, locationStatus,
                        credentialId, rawId, stTodos, stLocations,
                        stBiometric, webAuthnAvailable, watches, editingTodo,
                        pw, now, everRegistered>>
    ELSE \E confirms \in ConfirmAnswers :
            /\ Finish(req, performBiometricAuth(req.path, "none", confirms),
                      page, "none")
            /\ pending' = pending

\* navigator.credentials.create/get settles for the i-th waiting handler.
platformAnswers(i, platform) ==
    \E confirms \in ConfirmAnswers :
        /\ Finish(pending[i],
                  performBiometricAuth(pending[i].path, platform, confirms),
                  currentPage, platform)
        /\ pending' = RemoveAt(pending, i)

\* The handler alerts and opens the settings page (l.242-243, l.398-400,
\* l.423-425).
routeToSettings(op) ==
    /\ currentPage' = "settings"
    /\ lastEvent' = [Ev(op) EXCEPT !.routed = TRUE]
    /\ UNCHANGED <<todos, privateMode, biometricEnabled, authenticating,
                   registeredLocations, currentLocation, locationStatus,
                   credentialId, rawId, stTodos, stLocations, stBiometric,
                   webAuthnAvailable, watches, editingTodo, pw, pending, now,
                   everRegistered>>

\* The handler returns without touching any state.
returnOnly(ev, page) ==
    /\ lastEvent' = ev
    /\ currentPage' = page
    /\ UNCHANGED <<todos, privateMode, biometricEnabled, authenticating,
                   registeredLocations, currentLocation, locationStatus,
                   credentialId, rawId, stTodos, stLocations, stBiometric,
                   webAuthnAvailable, watches, editingTodo, pw, pending, now,
                   everRegistered>>

\* l.225-231; the button is on the settings page while !biometricEnabled
\* (l.741-744).
enableBiometric ==
    /\ ~biometricEnabled
    /\ Call(PlainRequest("enableBiometric"), "settings")

\* Mutant: private mode is switched on without calling performBiometricAuth.
togglePrivateMode_NoVerify ==
    IF ~privateMode /\ ~biometricEnabled
    THEN routeToSettings("togglePrivateMode")
    ELSE /\ privateMode' = ~privateMode
         /\ lastEvent' = Ev("togglePrivateMode")
         /\ UNCHANGED <<todos, biometricEnabled, authenticating,
                        registeredLocations, currentLocation, locationStatus,
                        currentPage, credentialId, rawId, stTodos,
                        stLocations, stBiometric, webAuthnAvailable, watches,
                        editingTodo, pw, pending, now, everRegistered>>

\* Mutant: without the biometricEnabled test of l.236.
togglePrivateMode_NoGuard ==
    IF ~privateMode
    THEN Call(PlainRequest("togglePrivateMode"), currentPage)
    ELSE /\ privateMode' = FALSE
         /\ lastEvent' = Ev("togglePrivateMode")
         /\ UNCHANGED <<todos, biometricEnabled, authenticating,
                        registeredLocations, currentLocation, locationStatus,
                        currentPage, credentialId, rawId, stTodos,
                        stLocations, stBiometric, webAuthnAvailable, watches,
                        editingTodo, pw, pending, now, everRegistered>>

\* Mutant: leaving private mode is guarded like entering it.
togglePrivateMode_VerifyToLeave ==
    IF biometricEnabled
    THEN Call(PlainRequest("togglePrivateMode"), currentPage)
    ELSE routeToSettings("togglePrivateMode")

\* l.234-248; the button is in the header (l.542).
togglePrivateMode ==
    IF ~privateMode
    THEN IF biometricEnabled
         THEN Call(PlainRequest("togglePrivateMode"), currentPage)
         ELSE routeToSettings("togglePrivateMode")
    ELSE /\ privateMode' = FALSE
         /\ lastEvent' = Ev("togglePrivateMode")
         /\ UNCHANGED <<todos, biometricEnabled, authenticating,
                        registeredLocations, currentLocation, locationStatus,
                        currentPage, credentialId, rawId, stTodos,
                        stLocations, stBiometric, webAuthnAvailable, watches,
                        editingTodo, pw, pending, now, everRegistered>>

\* l.388-415; the form is on the locations page while currentLocation is
\* known (l.674-705).
registerCurrentLocation(name, radius, type) ==
    /\ currentLocation # NoLocation
    /\ IF name = ""
       THEN returnOnly(Ev("registerCurrentLocation"), "locations")
       ELSE IF biometricEnabled
            THEN /\ Len(registeredLocations) < MaxZones
                 /\ Call(Request("registerCurrentLocation",
                                 registeredLocations, currentLocation,
                                 name, radius, type, 0), "locations")
            ELSE routeToSettings("registerCurrentLocation")

\* l.418-430; one button per listed zone on the locations page (l.709-719).
deleteLocation(id) ==
    /\ IF biometricEnabled
       THEN Call(Request("deleteLocation", registeredLocations, NoLocation,
                         "", 0, "home", id), "locations")
       ELSE routeToSettings("deleteLocation")

\* l.753-767: the reset button, shown while biometricEnabled and a
\* credential id is stored.
resetCredential(confirmed) ==
    /\ biometricEnabled
    /\ credentialId
    /\ IF confirmed
       THEN /\ credentialId' = FALSE
            /\ rawId' = FALSE
            /\ biometricEnabled' = FALSE
            /\ stBiometric' = FALSE
            /\ lastEvent' = [Ev("resetCredential") EXCEPT !.confirmed = TRUE]
            /\ currentPage' = "settings"
            /\ UNCHANGED <<todos, privateMode, authenticating,
                           registeredLocations, currentLocation,
                           locationStatus, stTodos, stLocations,
                           webAuthnAvailable, watches, editingTodo, pw,
                           pending, now, everRegistered>>
       ELSE returnOnly(Ev("resetCredential"), "settings")

(***************************************************************************)
(* Task handlers.                                                          *)
(***************************************************************************)
setTodos(ev, list) ==
    /\ todos' = list
    /\ stTodos' = saveList(list, stTodos)
    /\ lastEvent' = ev

RenderedIds == {sortedTodos[i].id : i \in 1..Len(sortedTodos)}

\* l.563-626: a rendered task shows its checkbox and its buttons unless it
\* is the one being edited, which shows the edit form instead.
ButtonIds == RenderedIds \ {editingTodo}

\* Mutant: without the trim of l.261, only the empty title is rejected.
addTodo_NoTrim(inputTitle, inputDetail, category) ==
    /\ IF inputTitle # <<>>
       THEN /\ Len(todos) < MaxTodos
            /\ setTodos(Ev("addTodo"),
                        Append(todos, [id |-> now, title |-> inputTitle,
                                           detail |-> inputDetail,
                                           category |-> category,
                                           createdAt |-> now,
                                           showDetail |-> FALSE,
                                           completed |-> FALSE]))
            /\ currentPage' = "main"
            /\ UNCHANGED <<privateMode, biometricEnabled, authenticating,
                           registeredLocations, currentLocation,
                           locationStatus, credentialId, rawId, stLocations,
                           stBiometric, webAuthnAvailable, watches,
                           editingTodo, pw, pending, now, everRegistered>>
       ELSE returnOnly(Ev("addTodo"), "add-task")

\* l.260-277; the form is on the add-task page (l.647-672).
addTodo(inputTitle, inputDetail, category) ==
    /\ IF trim(inputTitle) # <<>>
       THEN /\ Len(todos) < MaxTodos
            /\ setTodos(Ev("addTodo"),
                        Append(todos, [id |-> now, title |-> inputTitle,
                                           detail |-> inputDetail,
                                           category |-> category,
                                           createdAt |-> now,
                                           showDetail |-> FALSE,
                                           completed |-> FALSE]))
            /\ currentPage' = "main"
            /\ UNCHANGED <<privateMode, biometricEnabled, authenticating,
                           registeredLocations, currentLocation,
                           locationStatus, credentialId, rawId, stLocations,
                           stBiometric, webAuthnAvailable, watches,
                           editingTodo, pw, pending, now, everRegistered>>
       ELSE returnOnly(Ev("addTodo"), "add-task")

\* Mutant: the checkbox can only complete a task.
toggleCompleteMap_SetTrue(list, id) ==
    [i \in 1..Len(list) |->
        IF list[i].id = id THEN [list[i] EXCEPT !.completed = TRUE]
        ELSE list[i]]

\* l.252-256: the list toggleComplete hands to setTodos.
toggleCompleteMap(list, id) ==
    [i \in 1..Len(list) |->
        IF list[i].id = id
        THEN [list[i] EXCEPT !.completed = ~list[i].completed]
        ELSE list[i]]

\* l.251-257; the checkbox of a rendered task on the main page (l.604-609).
toggleComplete(id) ==
    /\ id \in ButtonIds
    /\ currentPage' = "main"
    /\ setTodos([Ev("toggleComplete") EXCEPT !.id = id],
                toggleCompleteMap(todos, id))
    /\ UNCHANGED <<privateMode, biometricEnabled, authenticating,
                   registeredLocations, currentLocation, locationStatus,
                   credentialId, rawId, stLocations, stBiometric,
                   webAuthnAvailable, watches, editingTodo, pw, pending, now,
                   everRegistered>>

\* Mutant: without the window.confirm test of l.303.
deleteTodo_NoConfirm(id, confirmed) ==
    /\ id \in ButtonIds
    /\ setTodos([Ev("deleteTodo") EXCEPT !.id = id, !.confirmed = confirmed],
                SelectSeq(todos, LAMBDA t : t.id # id))
    /\ currentPage' = "main"
    /\ UNCHANGED <<privateMode, biometricEnabled, authenticating,
                   registeredLocations, currentLocation, locationStatus,
                   credentialId, rawId, stLocations, stBiometric,
                   webAuthnAvailable, watches, editingTodo, pw, pending, now,
                   everRegistered>>

\* l.302-306; the delete button of a rendered task on the main page (l.623).
deleteTodo(id, confirmed) ==
    /\ id \in ButtonIds
    /\ IF confirmed
       THEN /\ setTodos([Ev("deleteTodo") EXCEPT !.id = id,
                                                  !.confirmed = TRUE],
                        SelectSeq(todos, LAMBDA t : t.id # id))
            /\ currentPage' = "main"
            /\ UNCHANGED <<privateMode, biometricEnabled, authenticating,
                           registeredLocations, currentLocation,
                           locationStatus, credentialId, rawId, stLocations,
                           stBiometric, webAuthnAvailable, watches,
                           editingTodo, pw, pending, now, everRegistered>>
       ELSE returnOnly([Ev("deleteTodo") EXCEPT !.id = id], "main")

\* l.309-313; the detail button of a rendered task that has a detail
\* (l.613-620).
toggleDetail(id) ==
    /\ id \in ButtonIds
    /\ \E i \in 1..Len(sortedTodos) :
          sortedTodos[i].id = id /\ sortedTodos[i].detail # ""
    /\ currentPage' = "main"
    /\ setTodos([Ev("toggleDetail") EXCEPT !.id = id],
                [i \in 1..Len(todos) |->
                    IF todos[i].id = id
                    THEN [todos[i] EXCEPT !.showDetail = ~todos[i].showDetail]
                    ELSE todos[i]])
    /\ UNCHANGED <<privateMode, biometricEnabled, authenticating,
                   registeredLocations, currentLocation, locationStatus,
                   credentialId, rawId, stLocations, stBiometric,
                   webAuthnAvailable, watches, editingTodo, pw, pending, now,
                   everRegistered>>

\* l.280-285; the edit button of a rendered task (l.622).  The edit fields
\* it fills are the inputs of saveEdit.
startEdit(id) ==
    /\ id \in ButtonIds
    /\ editingTodo' = id
    /\ currentPage' = "main"
    /\ lastEvent' = [Ev("startEdit") EXCEPT !.id = id]
    /\ UNCHANGED <<todos, privateMode, biometricEnabled, authenticating,
                   registeredLocations, currentLocation, locationStatus,
                   credentialId, rawId, stTodos, stLocations, stBiometric,
                   webAuthnAvailable, watches, pw, pending, now,
                   everRegistered>>

\* l.596: the cancel button of the edit form.
cancelEdit ==
    /\ editingTodo \in RenderedIds
    /\ editingTodo' = NoEdit
    /\ currentPage' = "main"
    /\ lastEvent' = [Ev("cancelEdit") EXCEPT !.id = editingTodo]
    /\ UNCHANGED <<todos, privateMode, biometricEnabled, authenticating,
                   registeredLocations, currentLocation, locationStatus,
                   credentialId, rawId, stTodos, stLocations, stBiometric,
                   webAuthnAvailable, watches, pw, pending, now,
                   everRegistered>>

\* Mutant: the edited task is taken out and put back at the end, as new.
saveEditMap_Replace(list, id, editTitle, editDetail, editCategory) ==
    LET edited == SelectSeq(list, LAMBDA t : t.id = id)
    IN SelectSeq(list, LAMBDA t : t.id # id)
       \o [i \in 1..Len(edited) |->
              [edited[i] EXCEPT !.title = editTitle, !.detail = editDetail,
                                !.category = editCategory,
                                !.completed = FALSE]]

\* l.290-294: the list saveEdit hands to setTodos.
saveEditMap(list, id, editTitle, editDetail, editCategory) ==
    [i \in 1..Len(list) |->
        IF list[i].id = id
        THEN [list[i] EXCEPT !.title = editTitle, !.detail = editDetail,
                             !.category = editCategory]
        ELSE list[i]]

\* l.288-299; the save button of the edit form (l.595), with the values
\* the user left in the form's fields.
saveEdit(editTitle, editDetail, editCategory) ==
    /\ editingTodo \in RenderedIds
    /\ IF trim(editTitle) # <<>> /\ editingTodo # NoEdit
       THEN /\ setTodos([Ev("saveEdit") EXCEPT !.id = editingTodo,
                                                !.confirmed = TRUE],
                        saveEditMap(todos, editingTodo, editTitle, editDetail,
                                    editCategory))
            /\ editingTodo' = NoEdit
            /\ currentPage' = "main"
            /\ UNCHANGED <<privateMode, biometricEnabled, authenticating,
                           registeredLocations, currentLocation,
                           locationStatus, credentialId, rawId, stLocations,
                           stBiometric, webAuthnAvailable, watches, pw,
                           pending, now, everRegistered>>
       ELSE returnOnly([Ev("saveEdit") EXCEPT !.id = editingTodo], "main")

\* Mutant: only the completed tasks that are on screen are deleted.
deleteAllCompletedFilter_Visible(list) ==
    SelectSeq(list, LAMBDA t : ~(t.completed /\ isTaskVisible(t)))

\* l.463: the list deleteAllCompleted hands to setTodos.
deleteAllCompletedFilter(list) == SelectSeq(list, LAMBDA t : ~t.completed)

\* l.455-466.  The button is rendered while some task is completed
\* (l.637-642); the handler counts the completed tasks again (l.456-460) and
\* asks window.confirm (l.462).
deleteAllCompleted(confirmed) ==
    IF SelectSeq(todos, LAMBDA t : t.completed) = <<>>
    THEN returnOnly(Ev("deleteAllCompleted"), "main")
    ELSE IF confirmed
         THEN /\ setTodos([Ev("deleteAllCompleted") EXCEPT !.confirmed = TRUE],
                          deleteAllCompletedFilter(todos))
              /\ currentPage' = "main"
              /\ UNCHANGED <<privateMode, biometricEnabled, authenticating,
                             registeredLocations, currentLocation,
                             locationStatus, credentialId, rawId,
                             stLocations, stBiometric, webAuthnAvailable,
                             watches, editingTodo, pw, pending, now,
                             everRegistered>>
         ELSE returnOnly(Ev("deleteAllCompleted"), "main")

(***************************************************************************)
(* The page is loaded again: every state cell starts over (l.44-68), the   *)
(* load effect reads localStorage (l.71-93), the waiting handlers are gone *)
(* with the old page.                                                      *)
(***************************************************************************)
Reload ==
    /\ todos' = stTodos
    /\ biometricEnabled' = stBiometric
    /\ registeredLocations' = IF stLocations # <<>> THEN stLocations
                              ELSE <<jaist(now)>>
    /\ stLocations' = IF stLocations # <<>> THEN stLocations
                      ELSE <<jaist(now)>>
    /\ privateMode' = FALSE
    /\ authenticating' = FALSE
    /\ currentLocation' = NoLocation
    /\ locationStatus' = "outside"
    /\ currentPage' = "main"
    /\ pending' = <<>>
    /\ watches' = watchPositionEffect(<<>>,
                                      IF stLocations # <<>> THEN stLocations
                                      ELSE <<jaist(now)>>,
                                      {<<>>})
    /\ editingTodo' = NoEdit
    /\ lastEvent' = Ev("Reload")
    /\ UNCHANGED <<credentialId, rawId, stTodos, stBiometric,
                   webAuthnAvailable, pw, now, everRegistered>>

(***************************************************************************)
(* Specifications.  The handlers are the same in all of them; they differ  *)
(* in the inputs the environment draws, so that each explores its part of  *)
(* the program in depth.                                                   *)
(*                                                                         *)
(*   Spec       the authentication gate: both kinds of browser, every      *)
(*              answer of the platform and of the user, reset and reload;  *)
(*              one kind of zone and one category of task.                 *)
(*   SpecLocate the geofence store and the resolver: every zone type and   *)
(*              radius input and every sample, on a browser without        *)
(*              WebAuthn (every verification is the confirm of l.209).     *)
(*   SpecTasks  the task store and the visibility policy: every category   *)
(*              and every location status, on a browser without WebAuthn.  *)
(*   SpecOverlap the zone handlers on a browser with WebAuthn, where a     *)
(*              handler can be started while the verification of another   *)
(*              is still waiting for the platform.                         *)
(*   SpecEdit   the edit form, the detail button and the bulk delete of    *)
(*              completed tasks.                                           *)
(*   SpecInput  the input tests of the add form, the edit form and the     *)
(*              zone form.                                                 *)
(*   SpecPassword the password-gated variant of src/unnamed/part_000.      *)
(***************************************************************************)
Platform == {"ok", "null", "reject"}

\* The step leaves at most limit verifications waiting for the platform.
InFlight(limit) == Len(pending') <= limit

Next ==
    \/ Tick
    \/ \E latitude \in {150, 5000} : handlePositionUpdate(latitude, 0)
    \/ enableBiometric /\ InFlight(MaxPending)
    \/ togglePrivateMode /\ InFlight(MaxPending)
    \/ \E name \in NameInputs :
          registerCurrentLocation(name, DefaultRadius, "home")
              /\ InFlight(MaxPending)
    \/ \E i \in 1..Len(registeredLocations) :
          deleteLocation(registeredLocations[i].id) /\ InFlight(MaxPending)
    \/ \E i \in 1..Len(pending), platform \in Platform :
          platformAnswers(i, platform)
    \/ \E confirmed \in BOOLEAN : resetCredential(confirmed)
    \/ addTodo(<<"t">>, "", "Work")
    \/ Reload

Spec == Init /\ [][Next]_vars

InitNoWebAuthn == Init /\ ~webAuthnAvailable

NextLocate ==
    \/ Tick
    \/ \E latitude \in Samples : handlePositionUpdate(latitude, 0)
    \/ watchPositionError
    \/ enableBiometric
    \/ \E name \in NameInputs, radius \in RadiusInputs, type \in LocationTypes :
          registerCurrentLocation(name, radius, type)
    \/ \E i \in 1..Len(registeredLocations) :
          deleteLocation(registeredLocations[i].id)
    \/ Reload

SpecLocate == InitNoWebAuthn /\ [][NextLocate]_vars

NextTasks ==
    \/ Tick
    \/ \E latitude \in {150, 5000} : handlePositionUpdate(latitude, 0)
    \/ enableBiometric
    \/ togglePrivateMode
    \/ \E type \in LocationTypes :
          registerCurrentLocation("n", DefaultRadius, type)
    \/ \E inputTitle \in TitleInputs, category \in Categories :
          addTodo(inputTitle, "", category)
    \/ \E i \in 1..Len(todos) : toggleComplete(todos[i].id)
    \/ \E i \in 1..Len(todos), confirmed \in BOOLEAN :
          deleteTodo(todos[i].id, confirmed)
    \/ Reload

SpecTasks == InitNoWebAuthn /\ [][NextTasks]_vars

\* Editing: the inputs of the edit form and of the add form.
EditTitles == {<<>>, <<" ">>, <<"u">>}
DetailInputs == {"", "d"}
EditCategories == {"School", "Other"}

NextEdit ==
    \/ Tick
    \/ \E latitude \in {150, 5000} : handlePositionUpdate(latitude, 0)
    \/ \E inputTitle \in TitleInputs, category \in EditCategories :
          addTodo(inputTitle, "", category)
    \/ \E i \in 1..Len(todos) : toggleComplete(todos[i].id)
    \/ \E i \in 1..Len(todos) : toggleDetail(todos[i].id)
    \/ \E i \in 1..Len(todos) : startEdit(todos[i].id)
    \/ cancelEdit
    \/ \E editTitle \in EditTitles, editDetail \in DetailInputs,
          editCategory \in EditCategories :
          saveEdit(editTitle, editDetail, editCategory)
    \/ \E confirmed \in BOOLEAN : deleteAllCompleted(confirmed)
    \/ Reload

SpecEdit == InitNoWebAuthn /\ [][NextEdit]_vars

\* Input validation: the add form, the edit form and the zone form.
NextInput ==
    \/ Tick
    \/ handlePositionUpdate(150, 0)
    \/ enableBiometric
    \/ \E name \in NameInputs :
          registerCurrentLocation(name, DefaultRadius, "home")
    \/ \E inputTitle \in TitleInputs, inputDetail \in DetailInputs :
          addTodo(inputTitle, inputDetail, "Other")
    \/ \E i \in 1..Len(todos) : startEdit(todos[i].id)
    \/ \E editTitle \in EditTitles, editDetail \in DetailInputs :
          saveEdit(editTitle, editDetail, "School")
    \/ Reload

SpecInput == InitNoWebAuthn /\ [][NextInput]_vars

InitWebAuthn == Init /\ webAuthnAvailable

NextOverlap ==
    \/ Tick
    \/ handlePositionUpdate(150, 0)
    \/ enableBiometric /\ InFlight(MaxOverlap)
    \/ registerCurrentLocation("n", DefaultRadius, "home")
          /\ InFlight(MaxOverlap)
    \/ \E i \in 1..Len(registeredLocations) :
          deleteLocation(registeredLocations[i].id) /\ InFlight(MaxOverlap)
    \/ \E i \in 1..Len(pending), platform \in Platform :
          platformAnswers(i, platform)
    \/ Reload

SpecOverlap == InitWebAuthn /\ [][NextOverlap]_vars

(***************************************************************************)
(* The password-gated variant (src/unnamed/part_000 l.31-850).  Its        *)
(* handlers act on pw only.                                                *)
(***************************************************************************)
MaxShots == 1

Passwords == {"", "a", "b"}
AuthActions == {"personal", "manual", "saveLocation"}      \* l.238
LocationContexts == {"outside", "school", "work", "home"}  \* l.29
PwSamples == {0, 5000}

\* The state cells of the variant are set to p and nothing else changes.
pwStep(op, p) ==
    /\ pw' = p
    /\ lastEvent' = Ev(op)
    /\ UNCHANGED <<todos, privateMode, biometricEnabled, authenticating,
                   registeredLocations, currentLocation, locationStatus,
                   currentPage, credentialId, rawId, stTodos, stLocations,
                   stBiometric, webAuthnAvailable, watches, editingTodo,
                   pending, now, everRegistered>>

\* l.108-127: the context of the nearest saved location whose radius covers
\* the coordinate, the earliest of them at equal distance (the test
\* distance < minDistance is strict), or outside.
detectLocationContext(latitude, savedLocations) ==
    LET d(i) == calculateDistance(latitude, 0, savedLocations[i].latitude, 0)
        inside == {i \in 1..Len(savedLocations) :
                      d(i) <= savedLocations[i].radius}
    IN IF inside = {} THEN "outside"
       ELSE savedLocations[CHOOSE i \in inside :
                              \A j \in inside :
                                 d(i) < d(j) \/ (d(i) = d(j) /\ i <= j)].context

\* The values handlePositionUpdate (l.130-147) closes over in the render
\* with state p: useAutoLocation and isPersonalMode (l.143) and, through
\* detectLocationContext, savedLocations (l.112).
callbackOf(p) ==
    [useAutoLocation |-> p.useAutoLocation,
     isPersonalMode |-> p.isPersonalMode,
     savedLocations |-> p.savedLocations]

\* l.174-217: the effect runs again after a render in which useAutoLocation
\* or savedLocations changed (l.217).  The cleanup of the previous run
\* clears its watch (l.200-205); then, with useAutoLocation on, the
\* callback of this render is given to getCurrentPosition (l.184-188) and
\* to watchPosition (l.191-195); otherwise a watch that is still
\* registered is cleared and gpsStatus reset (l.206-216).
gpsEffect(p) ==
    LET q == [p EXCEPT !.watches = {}]
    IN IF q.useAutoLocation
       THEN [q EXCEPT !.shots = @ \cup {callbackOf(q)},
                      !.watches = {callbackOf(q)}]
       ELSE IF q.watches # {}
            THEN [q EXCEPT !.gpsStatus = [isAvailable |-> FALSE, error |-> "",
                                          currentCoords |-> NoLocation]]
            ELSE q

\* l.130-147, as the callback cb runs it on a sample.
positionUpdate(p, cb, latitude) ==
    LET q == [p EXCEPT !.gpsStatus = [isAvailable |-> TRUE, error |-> "",
                                       currentCoords |->
                                           [lat |-> latitude, lon |-> 0]]]
    IN IF cb.useAutoLocation /\ ~cb.isPersonalMode
       THEN [q EXCEPT !.currentLocation =
                          detectLocationContext(latitude, cb.savedLocations)]
       ELSE q

\* l.350: the automatic-location checkbox.
setUseAutoLocation(checked) ==
    /\ checked # pw.useAutoLocation
    /\ pwStep("setUseAutoLocation",
              gpsEffect([pw EXCEPT !.useAutoLocation = checked]))

\* l.191-195: the watch delivers a sample to its callback.
pwHandlePositionUpdate(latitude) ==
    \E cb \in pw.watches :
        pwStep("pwHandlePositionUpdate", positionUpdate(pw, cb, latitude))

\* l.184-188: a getCurrentPosition request is answered, once; clearWatch
\* does not withdraw it.
getCurrentPosition(latitude) ==
    \E cb \in pw.shots :
        pwStep("getCurrentPosition",
               [positionUpdate(pw, cb, latitude) EXCEPT !.shots = @ \ {cb}])

\* l.149-171: the watch reports an error.
pwHandlePositionError ==
    /\ pw.watches # {}
    /\ pwStep("pwHandlePositionError",
              [pw EXCEPT !.gpsStatus.isAvailable = FALSE,
                         !.gpsStatus.error = "e"])

\* l.220-235; the register button of the save-location dialog (l.816),
\* with the context chosen in its select (l.799-813).  The effect of
\* l.174-217 runs again because savedLocations is set.
saveCurrentLocation(locationToSave) ==
    /\ pw.showLocationSaveDialog
    /\ IF pw.gpsStatus.currentCoords # NoLocation
       THEN pwStep("saveCurrentLocation",
                   gpsEffect([pw EXCEPT
                       !.savedLocations =
                           Append(SelectSeq(@, LAMBDA l :
                                                  l.context # locationToSave),
                                  [latitude |-> pw.gpsStatus.currentCoords.lat,
                                   longitude |-> pw.gpsStatus.currentCoords.lon,
                                   radius |-> IF locationToSave = "home"
                                              THEN DefaultRadius
                                              ELSE JaistRadius,
                                   context |-> locationToSave]),
                       !.showLocationSaveDialog = FALSE]))
       ELSE pwStep("saveCurrentLocation", pw)

\* l.238-241; the manual button (l.357), the personal-mode button while
\* personal mode is off (l.388-390) and the save-location button, shown
\* while useAutoLocation is on and a coordinate is known (l.408-425).
authenticate(action) ==
    /\ action = "personal" => ~pw.isPersonalMode
    /\ action = "saveLocation"
          => pw.useAutoLocation /\ pw.gpsStatus.currentCoords # NoLocation
    /\ pwStep("authenticate", [pw EXCEPT !.authAction = action,
                                         !.showPasswordDialog = TRUE])

\* l.735: the user types into the password field.
setPassword(password) ==
    /\ pw.showPasswordDialog
    /\ password # pw.password
    /\ pwStep("setPassword", [pw EXCEPT !.password = password])

\* l.263-271.
executeAuthAction(p, action) ==
    CASE action = "personal" -> [p EXCEPT !.isPersonalMode = TRUE]
      [] action = "manual" -> [p EXCEPT !.showManualLocationSelect = TRUE]
      [] action = "saveLocation" -> [p EXCEPT !.showLocationSaveDialog = TRUE]
      [] OTHER -> p

\* Mutant: any password that is not empty is accepted.
authenticateWithPassword_NoCompare ==
    /\ pw.showPasswordDialog
    /\ IF pw.password # ""
       THEN pwStep("authenticateWithPassword",
                   [executeAuthAction(pw, pw.authAction) EXCEPT
                       !.isAuthenticated = TRUE,
                       !.showPasswordDialog = FALSE,
                       !.password = ""])
       ELSE pwStep("authenticateWithPassword", pw)

\* l.243-261; the OK button and the Enter key of the password dialog
\* (l.736, l.749).  savedPassword is null when the key is absent, and null
\* equals no string.
authenticateWithPassword ==
    /\ pw.showPasswordDialog
    /\ IF pw.appPassword = <<>> /\ pw.password # ""
       THEN pwStep("authenticateWithPassword",
                   [executeAuthAction(pw, pw.authAction) EXCEPT
                       !.appPassword = <<pw.password>>,
                       !.hasSetPassword = TRUE,
                       !.isAuthenticated = TRUE,
                       !.showPasswordDialog = FALSE,
                       !.password = ""])
       ELSE IF pw.appPassword = <<pw.password>>
            THEN pwStep("authenticateWithPassword",
                        [executeAuthAction(pw, pw.authAction) EXCEPT
                            !.isAuthenticated = TRUE,
                            !.showPasswordDialog = FALSE,
                            !.password = ""])
            ELSE pwStep("authenticateWithPassword", pw)

\* l.763-766: the cancel button of the password dialog.
cancelPasswordDialog ==
    /\ pw.showPasswordDialog
    /\ pwStep("cancelPasswordDialog", [pw EXCEPT !.showPasswordDialog = FALSE,
                                                 !.password = ""])

\* l.388-394: the personal-mode button while personal mode is on.
leavePersonalMode ==
    /\ pw.isPersonalMode
    /\ pwStep("leavePersonalMode", [pw EXCEPT !.isPersonalMode = FALSE])

\* l.371-385: the manual select.
selectManualLocation(context) ==
    /\ pw.showManualLocationSelect
    /\ pwStep("selectManualLocation",
              [pw EXCEPT !.currentLocation = context,
                         !.showManualLocationSelect = FALSE])

\* l.830: the cancel button of the save-location dialog.
cancelLocationSaveDialog ==
    /\ pw.showLocationSaveDialog
    /\ pwStep("cancelLocationSaveDialog",
              [pw EXCEPT !.showLocationSaveDialog = FALSE])

\* The variant's page is loaded again: the state cells start over (l.42-68)
\* with savedLocations read from localStorage (l.55-58, saved at l.87-89),
\* hasSetPassword set when a password is stored (l.81-84), and no callback
\* of the old page left.
pwReload ==
    pwStep("pwReload", [PwInit EXCEPT !.savedLocations = pw.savedLocations,
                                      !.appPassword = pw.appPassword,
                                      !.hasSetPassword = pw.appPassword # <<>>])

NextPassword ==
    \/ \E checked \in BOOLEAN :
          setUseAutoLocation(checked) /\ Cardinality(pw'.shots) <= MaxShots
    \/ \E latitude \in PwSamples : pwHandlePositionUpdate(latitude)
    \/ \E latitude \in PwSamples : getCurrentPosition(latitude)
    \/ pwHandlePositionError
    \/ saveCurrentLocation("home") /\ Cardinality(pw'.shots) <= MaxShots
    \/ \E action \in AuthActions : authenticate(action)
    \/ \E password \in Passwords : setPassword(password)
    \/ authenticateWithPassword
    \/ cancelPasswordDialog
    \/ leavePersonalMode
    \/ \E context \in {"outside", "home"} : selectManualLocation(context)
    \/ cancelLocationSaveDialog
    \/ pwReload

SpecPassword == InitNoWebAuthn /\ [][NextPassword]_vars

(***************************************************************************)
(* Properties.                                                             *)
(***************************************************************************)
InView(todo) == \E j \in 1..Len(sortedTodos) : sortedTodos[j] = todo

\* The visibility table of the specification (section 4.4).
ExpectedVisible(status, category, private) ==
    \/ private
    \/ status = "home"
    \/ status = "school" /\ category \in {"School", "Other"}
    \/ status = "work" /\ category \in {"Work", "Other"}
    \/ status = "outside" /\ category = "Other"

\* C1: for every location state, category and private-mode value,
\* isTaskVisible returns what the visibility table says: true in private
\* mode; otherwise true at home, School/Other at school, Work/Other at work,
\* Other outside.  Stated for every category in the current state, and for
\* every stored task as membership in the rendered view.
C1_VisibilityTable ==
    /\ locationStatus \in LocationStatuses
    /\ \A c \in Categories :
          isTaskVisible([category |-> c])
              = ExpectedVisible(locationStatus, c, privateMode)
    /\ \A i \in 1..Len(todos) :
          InView(todos[i])
              = ExpectedVisible(locationStatus, todos[i].category, privateMode)

\* C1 witness: at school, private mode off, a School task is shown and a
\* Work task is hidden.
C1_Witness ==
    /\ ~privateMode
    /\ locationStatus = "school"
    /\ \E i, j \in 1..Len(todos) :
          /\ todos[i].category = "School" /\ InView(todos[i])
          /\ todos[j].category = "Work" /\ ~InView(todos[j])

\* C2: private mode dominance: whenever privateMode is true, every stored
\* task is in the visible view and every hidden count is 0, whatever the
\* location state.
C2_PrivateModeDominance ==
    privateMode =>
        /\ \A i \in 1..Len(todos) : InView(todos[i])
        /\ Len(sortedTodos) = Len(todos)
        /\ \A c \in Categories : hiddenCounts[c] = 0

\* C2 witness: private mode on while outside every zone, with a Personal and
\* a Work task stored (both hidden when private mode is off).
C2_Witness ==
    /\ privateMode
    /\ locationStatus = "outside"
    /\ \E i, j \in 1..Len(todos) :
          todos[i].category = "Personal" /\ todos[j].category = "Work"

Contains(lat, lon, loc) ==
    calculateDistance(lat, lon, loc.latitude, loc.longitude) <= loc.radius

ContainingZones ==
    {i \in 1..Len(registeredLocations) :
        Contains(currentLocation.lat, currentLocation.lon,
                 registeredLocations[i])}

\* C3: the location state computed by handlePositionUpdate is 'outside' if
\* and only if no registered zone has the sample within its radius.
C3_OutsideIffNoZone ==
    lastEvent.op = "handlePositionUpdate" =>
        (locationStatus = "outside" <=> ContainingZones = {})

\* C3 witness: a sample was resolved to 'outside' against two registered
\* zones, neither of which has it within its radius.
C3_Witness ==
    /\ lastEvent.op = "handlePositionUpdate"
    /\ Len(registeredLocations) = 2
    /\ locationStatus = "outside"
    /\ ContainingZones = {}

Swap(s, i, j) ==
    [k \in 1..Len(s) |-> IF k = i THEN s[j] ELSE IF k = j THEN s[i] ELSE s[k]]

FirstContaining == CHOOSE i \in ContainingZones : \A j \in ContainingZones : i <= j

\* C4: first match: when zones contain the sample, the location state is the
\* type of the containing zone earliest in store order; and for a later
\* containing zone of another type, the same list with the two swapped
\* resolves to that other type.
C4_FirstMatch ==
    (lastEvent.op = "handlePositionUpdate" /\ ContainingZones # {}) =>
        /\ locationStatus = registeredLocations[FirstContaining].type
        /\ \A j \in ContainingZones :
              registeredLocations[j].type # registeredLocations[FirstContaining].type
              => /\ resolveStatus(currentLocation.lat, currentLocation.lon,
                                  Swap(registeredLocations, FirstContaining, j))
                        = registeredLocations[j].type
                 /\ resolveStatus(currentLocation.lat, currentLocation.lon,
                                  Swap(registeredLocations, FirstContaining, j))
                        # locationStatus

\* C4 witness: two zones of different types contain the sample, the later
\* one is strictly nearer, and the location state is the earlier one's type.
C4_Witness ==
    /\ lastEvent.op = "handlePositionUpdate"
    /\ \E i, j \in ContainingZones :
          /\ i < j
          /\ registeredLocations[i].type # registeredLocations[j].type
          /\ calculateDistance(currentLocation.lat, currentLocation.lon,
                               registeredLocations[j].latitude,
                               registeredLocations[j].longitude)
               < calculateDistance(currentLocation.lat, currentLocation.lon,
                                   registeredLocations[i].latitude,
                                   registeredLocations[i].longitude)
          /\ locationStatus = registeredLocations[i].type

\* The handlers that verify before they act.
GuardedOps == {"togglePrivateMode", "registerCurrentLocation", "deleteLocation"}

\* C5: a verification (performBiometricAuth with a non-setup action) that is
\* called while no credential is registered never returns success, whatever
\* the platform or the user answers.
C5_VerifyFailsUnregistered ==
    (lastEvent.op \in GuardedOps /\ lastEvent.verify = "success")
        => lastEvent.cred

\* C6: no reachable state has privateMode true while the gate is
\* Unregistered (biometricEnabled false): a reset forces privateMode false.
C6_NoPrivateModeUnregistered == privateMode => biometricEnabled

\* C7: guarded operations proceed only on a successful verify: privateMode
\* goes from false to true, and the zone list is changed by
\* registerCurrentLocation or deleteLocation, only in the step in which the
\* verify of that request returned success, the request having found the
\* gate Registered when it called verify.  (The only other step that changes
\* the zone list is a reload, which restores the stored list.)
C7_GuardedOnlyAfterVerify ==
    [][ /\ (~privateMode /\ privateMode')
            => /\ lastEvent'.op = "togglePrivateMode"
               /\ lastEvent'.verify = "success"
               /\ lastEvent'.gate
        /\ (registeredLocations' # registeredLocations)
            => \/ lastEvent'.op = "Reload"
               \/ /\ lastEvent'.op \in {"registerCurrentLocation",
                                        "deleteLocation"}
                  /\ lastEvent'.verify = "success"
                  /\ lastEvent'.gate
      ]_vars

\* C7 witness: private mode was switched on by a request whose verify the
\* platform confirmed, and a zone has been registered.
C7_Witness ==
    /\ privateMode
    /\ lastEvent.op = "togglePrivateMode"
    /\ lastEvent.verify = "success"
    /\ lastEvent.platform = "ok"
    /\ Len(registeredLocations) = 2

\* C8: when the verify of a guarded operation returns failure, the step
\* leaves the task list, the zone list, privateMode, the registration state,
\* the last coordinate, the location state and the stored blobs as they
\* were, and the handler returns normally.  The step that called the verify
\* and suspended left them unchanged as well.
C8_FailureLeavesState ==
    [][ (lastEvent'.op \in GuardedOps
            /\ lastEvent'.verify \in {"failure", "pending"})
        => /\ UNCHANGED <<todos, registeredLocations, privateMode,
                          biometricEnabled, credentialId, rawId,
                          currentLocation, locationStatus, stTodos,
                          stLocations, stBiometric>>
           /\ ~lastEvent'.threw
      ]_vars

\* C8 witness: the platform call of a deleteLocation rejected, the user
\* declined the fallback, and a task and a zone are still stored.
C8_Witness ==
    /\ lastEvent.op = "deleteLocation"
    /\ lastEvent.verify = "failure"
    /\ lastEvent.platform = "reject"
    /\ Len(todos) > 0
    /\ Len(registeredLocations) > 0

\* C9: as long as enableBiometric has never succeeded, privateMode is false,
\* the gate is Unregistered, and a request to enable private mode is routed
\* to the settings page without calling verify.
C9_ScenarioB ==
    ~everRegistered =>
        /\ ~privateMode
        /\ ~biometricEnabled
        /\ lastEvent.op = "togglePrivateMode"
            => /\ lastEvent.verify = "none"
               /\ lastEvent.routed
               /\ currentPage = "settings"

\* C9 witness: private mode was requested before any registration and the
\* request was routed to the settings page.
C9_Witness ==
    /\ ~everRegistered
    /\ lastEvent.op = "togglePrivateMode"
    /\ lastEvent.routed
    /\ ~privateMode

\* C10: in the step in which enableBiometric succeeds biometricEnabled
\* becomes true (and is stored); a verify whose platform call returned an
\* assertion returns success; and no step of a guarded operation changes the
\* registration state (biometricEnabled, the stored credential).
C10_RegisterThenVerify ==
    [][ /\ (lastEvent'.op = "enableBiometric" /\ lastEvent'.verify = "success")
            => (biometricEnabled' /\ stBiometric' /\ everRegistered')
        /\ (lastEvent'.op \in GuardedOps /\ lastEvent'.platform = "ok")
            => lastEvent'.verify = "success"
        /\ (lastEvent'.op \in GuardedOps)
            => UNCHANGED <<biometricEnabled, credentialId, rawId, stBiometric>>
      ]_vars

\* C10 witness: after a registration that stored a credential, a verify
\* that the platform confirmed has returned success with the gate Registered.
C10_Witness ==
    /\ everRegistered
    /\ biometricEnabled
    /\ credentialId
    /\ lastEvent.op \in GuardedOps
    /\ lastEvent.platform = "ok"
    /\ lastEvent.verify = "success"

\* The handlers that call performBiometricAuth.
VerifyingOps == GuardedOps \cup {"enableBiometric"}

\* The value performBiometricAuth returned to the handler of the last step.
Returned == lastEvent.verify = "success"

\* The values performBiometricAuth returns when the platform confirmed.
StrongResults ==
    {performBiometricAuth(path, "ok", confirms).ret :
        path \in {"create", "get"}, confirms \in ConfirmAnswers}

\* C11: the two assurance levels are distinguishable to the caller: the
\* value a handler gets from performBiometricAuth for a success that the
\* platform did not confirm (the confirm of l.209 or l.215-216) is not a
\* value it gets for a success that the platform confirmed.
C11_AssuranceDistinguishable ==
    (/\ lastEvent.op \in VerifyingOps
     /\ lastEvent.verify = "success"
     /\ lastEvent.platform # "ok")
        => Returned \notin StrongResults

\* C12: when navigator.credentials.get/create rejects (a timeout included),
\* performBiometricAuth returns false to the guarded handler and the step
\* applies no guarded mutation.
C12_RejectIsFailure ==
    [][ (lastEvent'.op \in GuardedOps /\ lastEvent'.platform = "reject")
        => /\ lastEvent'.verify = "failure"
           /\ UNCHANGED <<privateMode, registeredLocations>>
      ]_vars

\* A step of a handler (the clock alone leaves lastEvent as it was).
HandlerStep == now' = now

\* C13: the step that applies a verified registerCurrentLocation appends
\* exactly one zone to the zone list as it was immediately before the step,
\* and the step that applies a verified deleteLocation removes from that
\* list what has the given id and nothing else, also when other
\* requests completed while the verification was waiting.
C13_ZoneMutationAtomic ==
    [][ /\ (HandlerStep /\ lastEvent'.op = "registerCurrentLocation"
                /\ lastEvent'.verify = "success")
            => /\ Len(registeredLocations') = Len(registeredLocations) + 1
               /\ SubSeq(registeredLocations', 1, Len(registeredLocations))
                      = registeredLocations
        /\ (HandlerStep /\ lastEvent'.op = "deleteLocation"
                /\ lastEvent'.verify = "success")
            => registeredLocations'
                   = SelectSeq(registeredLocations,
                               LAMBDA l : l.id # lastEvent'.id)
      ]_vars

\* The number of tasks of a category in a list.
CountOf(list, c) ==
    Cardinality({i \in 1..Len(list) : list[i].category = c})

SumHidden ==
    hiddenCounts["Personal"] + hiddenCounts["School"]
        + hiddenCounts["Work"] + hiddenCounts["Other"]

\* C14: hiddenCounts is the per-category complement of the visible view:
\* it has one count per category, each the number of stored tasks of the
\* category less the number of them in the rendered view, so the counts sum
\* to total tasks minus visible tasks; outside every zone with private mode
\* off the sum is the number of tasks less the number of Other tasks.
C14_HiddenCountsComplement ==
    /\ DOMAIN hiddenCounts = Categories
    /\ \A c \in Categories :
          hiddenCounts[c] = CountOf(todos, c) - CountOf(sortedTodos, c)
    /\ SumHidden = Len(todos) - Len(sortedTodos)
    /\ (locationStatus = "outside" /\ ~privateMode)
          => SumHidden = Len(todos) - CountOf(todos, "Other")

\* C14 witness: outside every zone with private mode off, an Other task and
\* a School task are stored: one is hidden, one is shown.
C14_Witness ==
    /\ locationStatus = "outside"
    /\ ~privateMode
    /\ currentLocation # NoLocation
    /\ CountOf(todos, "Other") = 1
    /\ CountOf(todos, "School") = 1
    /\ SumHidden = 1
    /\ Len(sortedTodos) = 1

\* C15: no two stored tasks have the same id, in every reachable state
\* (two tasks added at the same clock value included).
C15_TaskIdsUnique ==
    \A i, j \in 1..Len(todos) : todos[i].id = todos[j].id => i = j

\* C16: the step that applies a registerCurrentLocation appends one zone to
\* the zone list, leaving the zones that were there and their order as they
\* were, and the id of the appended zone differs from the id of every zone
\* that was there, the seeded zone included.
C16_FreshIdAppend ==
    [][ (HandlerStep /\ lastEvent'.op = "registerCurrentLocation"
            /\ lastEvent'.verify = "success")
        => /\ Len(registeredLocations') = Len(registeredLocations) + 1
           /\ SubSeq(registeredLocations', 1, Len(registeredLocations))
                  = registeredLocations
           /\ \A i \in 1..Len(registeredLocations) :
                  registeredLocations[i].id
                      # registeredLocations'[Len(registeredLocations')].id
      ]_vars

\* C17: removing a zone is idempotent: the step that applies a verified
\* deleteLocation(id) leaves the zone list unchanged when no zone of the
\* list has that id, it is not an error, and after it no zone with that id
\* is left, so that applying it again gives the same list.
C17_DeleteLocationIdempotent ==
    [][ (HandlerStep /\ lastEvent'.op = "deleteLocation"
            /\ lastEvent'.verify = "success")
        => /\ (\A i \in 1..Len(registeredLocations) :
                   registeredLocations[i].id # lastEvent'.id)
                => registeredLocations' = registeredLocations
           /\ ~lastEvent'.threw
           /\ SelectSeq(registeredLocations', LAMBDA l : l.id # lastEvent'.id)
                  = registeredLocations'
      ]_vars

\* The positions of a list whose task has another id than the given one.
KeptAt(list, id) == {i \in 1..Len(list) : list[i].id # id}

\* C18: task removal is idempotent: a confirmed deleteTodo(id) keeps every
\* task with another id, in order, and leaves no task with that id, so that
\* applying it again gives the same list; a declined deleteTodo leaves the
\* task list (and the stored list) unchanged.
C18_DeleteTodoIdempotent ==
    [][ (HandlerStep /\ lastEvent'.op = "deleteTodo")
        => IF lastEvent'.confirmed
           THEN /\ Len(todos') = Cardinality(KeptAt(todos, lastEvent'.id))
                /\ \A i \in KeptAt(todos, lastEvent'.id) :
                       todos'[Cardinality({j \in KeptAt(todos, lastEvent'.id) :
                                              j <= i})] = todos[i]
                /\ SelectSeq(todos', LAMBDA t : t.id # lastEvent'.id) = todos'
           ELSE UNCHANGED <<todos, stTodos>>
      ]_vars

\* C18 witness: a deleteTodo was confirmed and removed one of two tasks;
\* the task with the other id is still stored.
C18_Witness ==
    /\ lastEvent.op = "deleteTodo"
    /\ lastEvent.confirmed
    /\ Len(todos) = 1
    /\ todos[1].id # lastEvent.id

\* C19: every zone of the zone list has a radius greater than 0, in every
\* reachable state.
C19_RadiusPositive ==
    \A i \in 1..Len(registeredLocations) : registeredLocations[i].radius > 0

\* C20: save on every mutation: once a handler has run and the save effects
\* have followed, the stored 'todos' equals the task list and the stored
\* 'locations' equals the zone list, also after the removal of the last
\* task or zone, so that a reload restores the state after the last mutation.
C20_SaveOnEveryMutation ==
    /\ stTodos = todos
    /\ stLocations = registeredLocations

C22_ClearedWatchIsSilent ==
    [][ /\ watches' = {registeredLocations'}
        /\ (locationStatus' # locationStatus \/ currentLocation' # currentLocation)
           => lastEvent'.op \in {"handlePositionUpdate", "Reload"}
        /\ (HandlerStep /\ lastEvent'.op = "handlePositionUpdate")
           => \E latitude \in Samples :
                 /\ currentLocation' = [lat |-> latitude, lon |-> 0]
                 /\ locationStatus' = resolveStatus(latitude, 0,
                                                    registeredLocations') ]_vars

\* After a registration replaced the subscription, a sample was resolved to
\* the new zone, which only the new callback knows.
C22_Witness ==
    /\ lastEvent.op = "handlePositionUpdate"
    /\ Len(registeredLocations) = 2
    /\ registeredLocations[2].type = "home"
    /\ locationStatus = "home"

\* C23: a location error is not fatal.  The error callback changes no
\* program state (location status, last coordinate, zone list, task list,
\* privateMode and the rest), the subscription stays active, and the next
\* sample is processed as any other.
C23_LocationErrorNonFatal ==
    [][ /\ (HandlerStep /\ lastEvent'.op = "watchPositionError")
           => /\ UNCHANGED <<locationStatus, currentLocation,
                             registeredLocations, todos, privateMode,
                             biometricEnabled, authenticating, currentPage,
                             stTodos, stLocations, pending>>
              /\ watches' = watches
              /\ watches' # {}
        /\ (HandlerStep /\ lastEvent.op = "watchPositionError"
                        /\ lastEvent'.op = "handlePositionUpdate")
           => /\ currentLocation' # NoLocation
              /\ locationStatus' = resolveStatus(currentLocation'.lat,
                                                 currentLocation'.lon,
                                                 registeredLocations) ]_vars

\* An error was reported after a sample inside the default zone, the status
\* is kept and a further sample can be delivered.
C23_Witness ==
    /\ lastEvent.op = "watchPositionError"
    /\ locationStatus = "school"
    /\ currentLocation # NoLocation
    /\ ENABLED handlePositionUpdate(5000, 0)

C25_StatusMatchesZones ==
    currentLocation # NoLocation
        => locationStatus = resolveStatus(currentLocation.lat,
                                          currentLocation.lon,
                                          registeredLocations)

\* The tasks at position i before and after a step differ at most in the
\* fields named.
SameExcept(i, fields) ==
    \A f \in DOMAIN todos[i] : f \notin fields => todos'[i][f] = todos[i][f]

\* C26: edits are in place.  A saveEdit step changes at most the title, the
\* detail and the category of the tasks whose id is the edited one, and a
\* toggleComplete step changes only the completed flag of the tasks whose id
\* is the toggled one, negating it; both keep the length of the list, every
\* task's id, createdAt and position, and every task with another id as it
\* was; toggling the same id once more gives back the list before the step.
C26_EditsInPlace ==
    [][ /\ (HandlerStep /\ lastEvent'.op = "saveEdit")
           => /\ Len(todos') = Len(todos)
              /\ \A i \in 1..Len(todos) :
                    /\ todos'[i].id = todos[i].id
                    /\ todos'[i].createdAt = todos[i].createdAt
                    /\ IF todos[i].id = lastEvent'.id
                       THEN SameExcept(i, {"title", "detail", "category"})
                       ELSE todos'[i] = todos[i]
        /\ (HandlerStep /\ lastEvent'.op = "toggleComplete")
           => /\ Len(todos') = Len(todos)
              /\ \A i \in 1..Len(todos) :
                    /\ todos'[i].id = todos[i].id
                    /\ todos'[i].createdAt = todos[i].createdAt
                    /\ IF todos[i].id = lastEvent'.id
                       THEN /\ SameExcept(i, {"completed"})
                            /\ todos'[i].completed = ~todos[i].completed
                       ELSE todos'[i] = todos[i]
              /\ toggleCompleteMap(todos', lastEvent'.id) = todos ]_vars

\* The first of two tasks with different ids, completed before, was edited
\* and has the new title, detail and category.
C26_Witness ==
    /\ lastEvent.op = "saveEdit"
    /\ lastEvent.confirmed
    /\ Len(todos) = 2
    /\ todos[1].id = lastEvent.id
    /\ todos[2].id # lastEvent.id
    /\ todos[1].title = <<"u">>
    /\ todos[1].detail = "d"
    /\ todos[1].category = "School"
    /\ todos[1].completed

\* The position in todos of the k-th task that is not completed.
NthIncomplete(k) ==
    LET open == {i \in 1..Len(todos) : ~todos[i].completed}
    IN CHOOSE i \in open : Cardinality({j \in open : j < i}) = k - 1

\* C27: after a confirmed deleteAllCompleted no task in the list is completed
\* and the list is exactly the tasks that were not completed, in their
\* order; when no task is completed or the confirmation is declined, the
\* list and its stored copy are unchanged.
C27_BulkDeleteCompleted ==
    [][ (HandlerStep /\ lastEvent'.op = "deleteAllCompleted")
        => IF lastEvent'.confirmed
           THEN /\ \E i \in 1..Len(todos) : todos[i].completed
                /\ \A k \in 1..Len(todos') : ~todos'[k].completed
                /\ Len(todos') =
                      Cardinality({i \in 1..Len(todos) : ~todos[i].completed})
                /\ \A k \in 1..Len(todos') :
                      todos'[k] = todos[NthIncomplete(k)]
           ELSE UNCHANGED <<todos, stTodos>> ]_vars

\* A confirmed bulk delete removed a completed task and kept one that was
\* not completed.
C27_Witness ==
    /\ lastEvent.op = "deleteAllCompleted"
    /\ lastEvent.confirmed
    /\ Len(todos) = 1
    /\ ~todos[1].completed
    /\ Len(stTodos) = 1

\* C28: leaving private mode needs no authorization and cannot fail.  A
\* togglePrivateMode step taken while privateMode is true sets it to false in
\* that step, calls no verification (none is started, none is answered, the
\* user is not sent to the settings page), whether or not biometric
\* authentication is enabled and a credential is stored, and changes no
\* other program state.
C28_LeavePrivateModeUnguarded ==
    [][ (togglePrivateMode /\ privateMode)
        => /\ ~privateMode'
           /\ lastEvent'.op = "togglePrivateMode"
           /\ lastEvent'.verify = "none"
           /\ ~lastEvent'.routed
           /\ pending' = pending
           /\ UNCHANGED <<todos, biometricEnabled, authenticating,
                          registeredLocations, currentLocation,
                          locationStatus, currentPage, credentialId, rawId,
                          stTodos, stLocations, stBiometric, watches,
                          editingTodo>> ]_vars

\* Private mode was left after the credential had been reset, with
\* biometric authentication disabled.
C28_Witness ==
    /\ lastEvent.op = "togglePrivateMode"
    /\ lastEvent.verify = "none"
    /\ ~lastEvent.routed
    /\ ~privateMode
    /\ ~biometricEnabled
    /\ ~credentialId

\* The password in the field is accepted: it equals the stored one, or none
\* is stored and the field is not empty.
CorrectPassword ==
    \/ pw.appPassword = <<pw.password>>
    \/ pw.appPassword = <<>> /\ pw.password # ""

\* C29: in the password-gated variant personal mode and the privileged
\* dialogs open only after a correct password.  isPersonalMode,
\* showManualLocationSelect and showLocationSaveDialog become true only in an
\* authenticateWithPassword step with an accepted password (which is then
\* the stored one), and only the one the pending action names; with a wrong
\* or empty password the step leaves every state cell, the stored password
\* and the dialogs as they were.
C29_PasswordGate ==
    [][ /\ authenticateWithPassword
           => IF CorrectPassword
              THEN /\ pw'.appPassword = <<pw.password>>
                   /\ pw'.isAuthenticated
                   /\ pw'.isPersonalMode =
                         (pw.isPersonalMode \/ pw.authAction = "personal")
                   /\ pw'.showManualLocationSelect =
                         (pw.showManualLocationSelect
                             \/ pw.authAction = "manual")
                   /\ pw'.showLocationSaveDialog =
                         (pw.showLocationSaveDialog
                             \/ pw.authAction = "saveLocation")
              ELSE pw' = pw
        /\ (\/ ~pw.isPersonalMode /\ pw'.isPersonalMode
            \/ ~pw.showManualLocationSelect /\ pw'.showManualLocationSelect
            \/ ~pw.showLocationSaveDialog /\ pw'.showLocationSaveDialog
            \/ ~pw.isAuthenticated /\ pw'.isAuthenticated
            \/ pw'.appPassword # pw.appPassword)
           => /\ lastEvent'.op = "authenticateWithPassword"
              /\ pw.showPasswordDialog
              /\ CorrectPassword ]_vars

\* A wrong password was refused: a password is stored, another one is in
\* the field, the dialog is still open and personal mode is off.
C29_Witness ==
    /\ lastEvent.op = "authenticateWithPassword"
    /\ pw.appPassword = <<"a">>
    /\ pw.password = "b"
    /\ pw.authAction = "personal"
    /\ pw.showPasswordDialog
    /\ ~pw.isPersonalMode
    /\ ~pw.isAuthenticated

\* C30: in the password-gated variant a GPS sample changes the current
\* location context only while automatic location is on and personal mode
\* is off; in particular a sample delivered while isPersonalMode is true
\* leaves currentLocation unchanged.
C30_SamplesRespectPersonalMode ==
    [][ (/\ lastEvent'.op \in {"pwHandlePositionUpdate", "getCurrentPosition"}
         /\ pw'.currentLocation # pw.currentLocation)
        => pw.useAutoLocation /\ ~pw.isPersonalMode ]_vars

====
